---- MODULE Spec2Model ----
(***************************************************************************)
(* Storage engine of DAAFS: block cache (cache.rs), write-back queue and   *)
(* its sync worker (queue.rs), page directories (metadata.rs) and the      *)
(* read/write/flush orchestrator (lib.rs).                                 *)
(*                                                                         *)
(* A byte buffer is a sequence of runs <<len, byte>> kept in normal form   *)
(* (no empty run, no two adjacent runs of the same byte), so that slices   *)
(* at any byte position of an 8 MiB buffer are exact.                      *)
(***************************************************************************)
EXTENDS Integers, Sequences, FiniteSets, TLC

\* ------------------------------------------------------------ constants
\* size of a page buffer, 1024*1024*8 (lib.rs:47, metadata.rs:255)
PAGE == 8388608
\* size of one request chunk / sub-block (cache.rs:35, metadata.rs:237)
CHUNK == 4096
\* Cache<4> and Queue<4> of the plugin (lib.rs:25, lib.rs:26)
CacheS == 4
QueueS == 4
\* capacity of the cache of test_cache (cache.rs:94)
TestCacheS == 2
\* pages per metadata block (metadata.rs:141)
BlockPages == 5

\* ------------------------------------------------------------ bounds
\* foreground requests issued in one run
MaxOps == 3
\* foreground requests issued in one run of the back-pressure scenario
MaxOpsPressure == 8
\* foreground requests issued in one run of the progress scenario
MaxOpsLive == 6
\* operations on the bare cache in one run of the cache scenario
MaxCacheOps == 6
\* operations on the bit mask in one run of the mask scenario
MaxMaskOps == 3
\* operations on the bare queue in one run of the queue scenario
MaxQueueOps == 6

None == <<>>
Some(x) == <<x>>

\* ------------------------------------------------------------ byte buffers
RECURSIVE Norm(_)
Norm(runs) ==
    IF runs = <<>> THEN <<>>
    ELSE IF Head(runs)[1] = 0 THEN Norm(Tail(runs))
    ELSE LET rest == Norm(Tail(runs)) IN
         IF rest # <<>> /\ Head(rest)[2] = Head(runs)[2]
         THEN <<(<<Head(runs)[1] + Head(rest)[1], Head(runs)[2]>>)>> \o Tail(rest)
         ELSE <<Head(runs)>> \o rest

RECURSIVE BufLen(_)
BufLen(runs) == IF runs = <<>> THEN 0 ELSE Head(runs)[1] + BufLen(Tail(runs))

\* vec![b; n]
Fill(n, b) == Norm(<< <<n, b>> >>)

RECURSIVE DropBytes(_, _)
DropBytes(runs, n) ==
    IF n = 0 \/ runs = <<>> THEN runs
    ELSE IF Head(runs)[1] <= n THEN DropBytes(Tail(runs), n - Head(runs)[1])
    ELSE <<(<<Head(runs)[1] - n, Head(runs)[2]>>)>> \o Tail(runs)

RECURSIVE TakeBytes(_, _)
TakeBytes(runs, n) ==
    IF n = 0 \/ runs = <<>> THEN <<>>
    ELSE IF Head(runs)[1] <= n
         THEN <<Head(runs)>> \o TakeBytes(Tail(runs), n - Head(runs)[1])
    ELSE <<(<<n, Head(runs)[2]>>)>>

\* data[start..start + n]
Slice(runs, start, n) == Norm(TakeBytes(DropBytes(runs, start), n))

\* data[start..start + len(chunk)].copy_from_slice(chunk)
Splice(runs, start, chunk) ==
    Norm(TakeBytes(runs, start) \o chunk
         \o DropBytes(runs, start + BufLen(chunk)))

\* data.iter().all(|byte| *byte == 0)
AllZero(runs) == \A i \in 1..Len(runs) : runs[i][2] = 0

\* ------------------------------------------------------------ BitMask
\* A BitMask<256> is kept as the function from the indices of its non-zero
\* bytes to their values; every other byte is 0.
BitMask_new == [k \in {} |-> 0]

MaskByte(mask, byte) == IF byte \in DOMAIN mask THEN mask[byte] ELSE 0

WithByte(mask, byte, v) ==
    IF v = 0 THEN [k \in (DOMAIN mask) \ {byte} |-> mask[k]]
    ELSE [k \in (DOMAIN mask) \cup {byte} |-> IF k = byte THEN v ELSE mask[k]]

\* 1 << bit
Shl1(bit) == 2 ^ bit

BitMask_get(mask, index) ==
    LET byte == index \div 8
        bit  == index % 8
    IN (MaskByte(mask, byte) \div Shl1(bit)) % 2 # 0

\* BitMask::set with the clearing branch written `&= 1 << bit`
BitMask_set_and_bit(mask, index, value) ==
    LET byte == index \div 8
        bit  == index % 8
        old  == MaskByte(mask, byte)
        has  == (old \div Shl1(bit)) % 2 # 0
    IN IF value
       THEN WithByte(mask, byte, IF has THEN old ELSE old + Shl1(bit))
       ELSE WithByte(mask, byte, IF has THEN Shl1(bit) ELSE 0)

BitMask_set(mask, index, value) ==
    LET byte == index \div 8
        bit  == index % 8
        old  == MaskByte(mask, byte)
        has  == (old \div Shl1(bit)) % 2 # 0
    IN IF value
       THEN WithByte(mask, byte, IF has THEN old ELSE old + Shl1(bit))
       ELSE WithByte(mask, byte, IF has THEN old - Shl1(bit) ELSE old)

\* ------------------------------------------------------------ u64
\* A u64 is four 16-bit limbs, least significant first; arithmetic wraps at
\* 2^64 as the release build's does.
LIMB == 65536

U64_of(n) == <<n % LIMB, (n \div LIMB) % LIMB, 0, 0>>

\* the value of a u64 below 2^31
U64_int(v) == v[1] + v[2] * LIMB

U64_is_zero(v) == v = <<0, 0, 0, 0>>

\* [quot, rem]: value / d and value % d, d a small divisor
U64_divmod(v, d) ==
    LET c4 == v[4]
        c3 == (c4 % d) * LIMB + v[3]
        c2 == (c3 % d) * LIMB + v[2]
        c1 == (c2 % d) * LIMB + v[1]
    IN [quot |-> <<c1 \div d, c2 \div d, c3 \div d, c4 \div d>>, rem |-> c1 % d]

\* v * k for a small k
U64_mul(v, k) ==
    LET t1 == v[1] * k
        t2 == v[2] * k + t1 \div LIMB
        t3 == v[3] * k + t2 \div LIMB
        t4 == v[4] * k + t3 \div LIMB
    IN <<t1 % LIMB, t2 % LIMB, t3 % LIMB, t4 % LIMB>>

U64_add(a, b) ==
    LET t1 == a[1] + b[1]
        t2 == a[2] + b[2] + t1 \div LIMB
        t3 == a[3] + b[3] + t2 \div LIMB
        t4 == a[4] + b[4] + t3 \div LIMB
    IN <<t1 % LIMB, t2 % LIMB, t3 % LIMB, t4 % LIMB>>

\* base.pow(i)
RECURSIVE U64_pow(_, _)
U64_pow(base, i) == IF i = 0 THEN U64_of(1) ELSE U64_mul(U64_pow(base, i - 1), base)

\* ------------------------------------------------------------ text
\* A string is the sequence of the code points of its chars.
RECURSIVE Reverse(_)
Reverse(s) == IF s = <<>> THEN <<>> ELSE Append(Reverse(Tail(s)), Head(s))

\* position (from 0) of the first occurrence of c in s, -1 if none
IndexOf(s, c) ==
    LET hits == {i \in 1..Len(s) : s[i] = c}
    IN IF hits = {} THEN -1 ELSE (CHOOSE i \in hits : \A j \in hits : i <= j) - 1

\* the pieces of s between the occurrences of sep (str::split, str::lines)
RECURSIVE SplitOn(_, _)
SplitOn(s, sep) ==
    LET i == IndexOf(s, sep) IN
    IF i < 0 THEN <<s>>
    ELSE <<SubSeq(s, 1, i)>> \o SplitOn(SubSeq(s, i + 2, Len(s)), sep)

\* str::lines: the lines of s, without a last empty one
Lines(s) ==
    LET p == SplitOn(s, 10) IN
    IF p[Len(p)] = <<>> THEN SubSeq(p, 1, Len(p) - 1) ELSE p

\* "0123456789abcdefghijklmnopqrstuv"
BASE32_ALPHABET ==
    << 48, 49, 50, 51, 52, 53, 54, 55, 56, 57, 97, 98, 99, 100, 101, 102,
       103, 104, 105, 106, 107, 108, 109, 110, 111, 112, 113, 114, 115, 116, 117, 118 >>

\* the digits pushed by the loop of to_base32, least significant first
RECURSIVE Base32_digits(_)
Base32_digits(value) ==
    IF U64_is_zero(value) THEN <<>>
    ELSE LET dm == U64_divmod(value, Len(BASE32_ALPHABET))
         IN <<BASE32_ALPHABET[dm.rem + 1]>> \o Base32_digits(dm.quot)

\* to_base32 returning the digits in the order the loop pushed them
to_base32_unreversed(value) ==
    LET result == Base32_digits(value)
    IN IF result = <<>> THEN <<BASE32_ALPHABET[1]>> ELSE result

to_base32(value) ==
    LET result == Base32_digits(value)
    IN Reverse(IF result = <<>> THEN <<BASE32_ALPHABET[1]>> ELSE result)

\* the sum of from_base32 over the chars rev, the first of them at position i
RECURSIVE Base32_sum(_, _)
Base32_sum(rev, i) ==
    IF rev = <<>> THEN [panic |-> FALSE, value |-> U64_of(0)]
    ELSE LET index == IndexOf(BASE32_ALPHABET, Head(rev))
             rest == Base32_sum(Tail(rev), i + 1)
         IN IF index < 0 \/ rest.panic THEN [panic |-> TRUE, value |-> U64_of(0)]
            ELSE [panic |-> FALSE,
                  value |-> U64_add(U64_mul(U64_pow(Len(BASE32_ALPHABET), i), index),
                                    rest.value)]

\* [panic, value]: panic when a char is not in the alphabet (unwrap of None)
from_base32(value) == Base32_sum(Reverse(value), 0)

BASE_255_ALPHABET ==
    << 48, 49, 50, 51, 52, 53, 54, 55, 56, 57, 65, 66, 67, 68, 69, 70, 71,
       72, 73, 74, 75, 76, 77, 78, 79, 80, 81, 82, 83, 84, 85, 86, 87, 88,
       89, 90, 97, 98, 99, 100, 101, 102, 103, 104, 105, 106, 107, 108,
       109, 110, 111, 112, 113, 114, 115, 116, 117, 118, 119, 120, 121,
       122, 33, 34, 35, 36, 37, 38, 39, 40, 41, 43, 44, 45, 46, 47, 58, 59,
       60, 61, 62, 63, 64, 91, 93, 94, 123, 125, 126, 8240, 163, 164, 165,
       166, 167, 171, 172, 178, 179, 181, 192, 193, 194, 195, 196, 197,
       198, 199, 200, 201, 202, 203, 204, 205, 206, 207, 208, 209, 210,
       216, 223, 224, 225, 226, 227, 228, 229, 230, 231, 232, 233, 234,
       235, 236, 254, 255, 503, 510, 511, 581, 582, 580, 579, 573, 574,
       570, 568, 569, 590, 664, 663, 662, 661, 660, 659, 658, 657, 650,
       647, 646, 641, 642, 992, 993, 994, 1005, 1009, 1018, 1019, 1023,
       1022, 1020, 9684, 9677, 9678, 9680, 9681, 9682, 9683, 9690, 9691,
       9715, 9714, 9713, 9712, 9711, 9727, 9692, 9693, 9694, 9695, 9696,
       9697, 9673, 9674, 9635, 9636, 9637, 9638, 9639, 9640, 9641, 9626,
       9625, 9628, 9627, 9629, 9630, 9631, 9602, 9603, 9604, 9605, 9606,
       9607, 9608, 9609, 9610, 9611, 9612, 9613, 9617, 9618, 9619, 9312,
       9313, 9314, 9315, 9316, 9317, 9318, 9319, 9320, 9321, 9322, 9323,
       9324, 9325, 9326, 9398, 9399, 9400, 9401, 9402, 9403, 9404, 9405,
       9406, 9407, 9332, 9333, 9334, 9335, 9336, 9337, 8249 >>

byte_to_base_255(byte) == BASE_255_ALPHABET[byte + 1]

base_255_to_byte(c) ==
    LET i == IndexOf(BASE_255_ALPHABET, c) IN IF i < 0 THEN 0 ELSE i

\* ------------------------------------------------------------ BitMask bytes
\* number of bytes of the zero mask of a page, BitMask<256>
MaskS == 256

\* BitMask::from_bytes of a slice of at most S bytes
BitMask_from_bytes(bytes) ==
    [k \in {i - 1 : i \in {j \in 1..Len(bytes) : bytes[j] # 0}} |-> bytes[k + 1]]

BitMask_as_bytes(mask) == [i \in 1..MaskS |-> MaskByte(mask, i - 1)]

\* ------------------------------------------------------------ Cache
CacheBlock_new(offset, message_id, data, mask) ==
    [offset |-> offset, message_id |-> message_id, data |-> data, mask |-> mask]

\* the test `offset >= block.offset && offset + 4096 < block.offset + len`
Cache_covers(block, offset) ==
    /\ offset >= block.offset
    /\ offset + CHUNK < block.offset + BufLen(block.data)

\* index of the first block of the scan that covers offset, 0 if none
Cache_find(c, offset) ==
    LET hits == {i \in 1..Len(c) : Cache_covers(c[i], offset)}
    IN IF hits = {} THEN 0 ELSE CHOOSE i \in hits : \A j \in hits : i <= j

Cache_read(c, offset) ==
    LET i == Cache_find(c, offset) IN
    IF i = 0 THEN None
    ELSE LET local == offset - c[i].offset IN
         IF BitMask_get(c[i].mask, local \div CHUNK)
         THEN Some(Fill(CHUNK, 0))
         ELSE Some(Slice(c[i].data, local, CHUNK))

\* [ok, cache]: ok is the bool Cache::write returns
Cache_write(c, offset, data) ==
    LET i == Cache_find(c, offset) IN
    IF i = 0 THEN [ok |-> FALSE, cache |-> c]
    ELSE LET local == offset - c[i].offset
             blk == [c[i] EXCEPT
                       !.data = Splice(c[i].data, local, data),
                       !.mask = BitMask_set(c[i].mask, local \div CHUNK,
                                            AllZero(data))]
         IN [ok |-> TRUE, cache |-> [c EXCEPT ![i] = blk]]

\* Cache::push evicting the newest block instead of the oldest
Cache_push_newest(c, S, block) ==
    IF Len(c) >= S
    THEN [cache |-> Append(SubSeq(c, 1, Len(c) - 1), block),
          removed |-> Some(c[Len(c)])]
    ELSE [cache |-> Append(c, block), removed |-> None]

\* [cache, removed]: removed is the Option<CacheBlock> Cache::push returns
Cache_push(c, S, block) ==
    IF Len(c) >= S
    THEN [cache |-> Append(Tail(c), block), removed |-> Some(Head(c))]
    ELSE [cache |-> Append(c, block), removed |-> None]

\* ------------------------------------------------------------ Queue
Page_of(offset, message_id, zero_mask) ==
    [offset |-> offset, message_id |-> message_id, zero_mask |-> zero_mask]

QueueBlock_new(page, data) == [page |-> page, data |-> data]

\* the loop test of Queue::push written `sdl > S`
Queue_is_full_off_by_one(sdl) == sdl > QueueS

\* the loop test of Queue::push
Queue_is_full(sdl) == sdl >= QueueS

RemoveAt(q, i) == SubSeq(q, 1, i - 1) \o SubSeq(q, i + 1, Len(q))

\* [queue, found]: found is the Option<(Page, Vec<u8>)> returned
Queue_release_offset(q, offset) ==
    LET hits == {i \in 1..Len(q) : q[i].page.offset = offset} IN
    IF hits = {} THEN [queue |-> q, found |-> None]
    ELSE LET i == CHOOSE i \in hits : \A j \in hits : i <= j
         IN [queue |-> RemoveAt(q, i), found |-> Some(q[i])]

\* Queue::pop taking the oldest entry (sdata.remove(0))
Queue_pop_oldest(q) ==
    IF q = <<>> THEN [queue |-> q, block |-> None]
    ELSE [queue |-> Tail(q), block |-> Some(Head(q))]

\* [queue, block]: Vec::pop
Queue_pop(q) ==
    IF q = <<>> THEN [queue |-> q, block |-> None]
    ELSE [queue |-> SubSeq(q, 1, Len(q) - 1), block |-> Some(q[Len(q)])]

\* ------------------------------------------------------------ remote store
\* The channel: attachments of the "DATA PAGE" messages and texts of the
\* METABLOCK messages, by message id, and the id the next message gets.
Channel_new == [files |-> [k \in {} |-> <<>>], texts |-> [k \in {} |-> <<>>],
                next |-> 1]

Put(f, k, v) == [x \in (DOMAIN f) \cup {k} |-> IF x = k THEN v ELSE f[x]]
Del(f, k) == [x \in (DOMAIN f) \ {k} |-> f[x]]

\* ------------------------------------------------------------ Page
Page_new(offset) == Page_of(offset, 0, BitMask_new)

\* whether Page::read goes to the channel (zero-mask bit clear)
Page_read_fetches(page, offset) ==
    ~BitMask_get(page.zero_mask, (offset - page.offset * PAGE) \div CHUNK)

\* [panic, data]: panic when the message fetch fails (unwrap of an Err)
Page_read(page, offset, ch) ==
    IF ~Page_read_fetches(page, offset)
    THEN [panic |-> FALSE, data |-> Fill(PAGE, 0)]
    ELSE IF page.message_id \in DOMAIN ch.files
    THEN [panic |-> FALSE, data |-> ch.files[page.message_id]]
    ELSE [panic |-> TRUE, data |-> <<>>]

\* whether Page::write goes to the channel
Page_write_fetches(page, ooffset) ==
    page.message_id # 0 /\ Page_read_fetches(page, ooffset)

\* Page::write with the send_files block left in: the page takes the id of
\* the message it sends
Page_write_sends(page, ooffset, data, ch) ==
    LET offset == ooffset - page.offset * PAGE
        rd == IF page.message_id # 0 THEN Page_read(page, ooffset, ch)
              ELSE [panic |-> FALSE, data |-> Fill(PAGE, 0)]
    IN IF rd.panic THEN [panic |-> TRUE, data |-> <<>>, page |-> page]
       ELSE IF AllZero(data)
       THEN [panic |-> FALSE, data |-> rd.data,
             page |-> [page EXCEPT !.zero_mask =
                          BitMask_set(page.zero_mask, offset \div CHUNK, TRUE)]]
       ELSE [panic |-> FALSE, data |-> Splice(rd.data, offset, data),
             page |-> [page EXCEPT !.message_id = ch.next]]

\* [panic, data, page]: the buffer returned and the page after the call
Page_write(page, ooffset, data, ch) ==
    LET offset == ooffset - page.offset * PAGE
        rd == IF page.message_id # 0 THEN Page_read(page, ooffset, ch)
              ELSE [panic |-> FALSE, data |-> Fill(PAGE, 0)]
    IN IF rd.panic THEN [panic |-> TRUE, data |-> <<>>, page |-> page]
       ELSE IF AllZero(data)
       THEN [panic |-> FALSE, data |-> rd.data,
             page |-> [page EXCEPT !.zero_mask =
                          BitMask_set(page.zero_mask, offset \div CHUNK, TRUE)]]
       ELSE [panic |-> FALSE, data |-> Splice(rd.data, offset, data),
             page |-> page]

\* [page, ch]: delete the old attachment message, send a new one
Page_update_message(page, data, ch) ==
    LET kept == IF page.message_id # 0 THEN Del(ch.files, page.message_id)
                ELSE ch.files
    IN [page |-> [page EXCEPT !.message_id = ch.next],
        ch |-> [ch EXCEPT !.files = Put(kept, ch.next, data),
                          !.next = ch.next + 1]]

\* ------------------------------------------------------------ MetadataBlock
MetadataBlock_empty(message_id) == [message_id |-> message_id, pages |-> <<>>]

\* Page::as_text: one char per byte of the zero mask
Page_as_text(page) ==
    LET zero_mask == BitMask_as_bytes(page.zero_mask)
    IN [i \in 1..Len(zero_mask) |-> byte_to_base_255(zero_mask[i])]

\* Page::from_text of a text of at most 256 chars
Page_from_text(message_id, offset, text) ==
    Page_of(offset, message_id,
            BitMask_from_bytes([i \in 1..Len(text) |-> base_255_to_byte(text[i])]))

\* "METABLOCK"
METABLOCK == <<77, 69, 84, 65, 66, 76, 79, 67, 75>>

\* format!("{}:{}:{}\n", offset.to_base32(), message_id.to_base32(), as_text())
RECURSIVE PageLines(_)
PageLines(pages) ==
    IF pages = <<>> THEN <<>>
    ELSE to_base32(U64_of(Head(pages).offset)) \o <<58>>
         \o to_base32(U64_of(Head(pages).message_id)) \o <<58>>
         \o Page_as_text(Head(pages)) \o <<10>> \o PageLines(Tail(pages))

MetadataBlock_as_text(block) == METABLOCK \o <<10>> \o PageLines(block.pages)

\* [panic, pages]: the pages of the lines after the first; panic when a line
\* has fewer than three fields or a field is not base 32 (unwrap of None)
RECURSIVE ParseLines(_)
ParseLines(lines) ==
    IF lines = <<>> THEN [panic |-> FALSE, pages |-> <<>>]
    ELSE LET split == SplitOn(Head(lines), 58)
             rest == ParseLines(Tail(lines))
         IN IF Len(split) < 3 THEN [panic |-> TRUE, pages |-> <<>>]
            ELSE LET offset == from_base32(split[1])
                     message_id == from_base32(split[2])
                 IN IF offset.panic \/ message_id.panic \/ rest.panic
                    THEN [panic |-> TRUE, pages |-> <<>>]
                    ELSE [panic |-> FALSE,
                          pages |-> <<Page_from_text(U64_int(message_id.value),
                                                     U64_int(offset.value),
                                                     split[3])>> \o rest.pages]

\* [panic, block]
MetadataBlock_from_text(message_id, text) ==
    LET lines == Lines(text)
        p == ParseLines(IF lines = <<>> THEN <<>> ELSE Tail(lines))
    IN [panic |-> p.panic,
        block |-> [message_id |-> message_id, pages |-> p.pages]]

\* index of the page of the block with this page offset, 0 if none
FindPage(block, pageoff) ==
    LET hits == {i \in 1..Len(block.pages) : block.pages[i].offset = pageoff}
    IN IF hits = {} THEN 0 ELSE CHOOSE i \in hits : \A j \in hits : i <= j

\* [panic, block, ch]
MetadataBlock_update_message(block, ch) ==
    IF block.message_id = 0
    THEN LET b == [block EXCEPT !.message_id = ch.next] IN
         [panic |-> FALSE, block |-> b,
          ch |-> [ch EXCEPT !.texts = Put(ch.texts, ch.next,
                                          MetadataBlock_as_text(b)),
                            !.next = ch.next + 1]]
    ELSE IF block.message_id \in DOMAIN ch.texts
    THEN [panic |-> FALSE, block |-> block,
          ch |-> [ch EXCEPT !.texts = Put(ch.texts, block.message_id,
                                          MetadataBlock_as_text(block))]]
    ELSE [panic |-> TRUE, block |-> block, ch |-> ch]

\* [panic, res]: res is the Option<(Vec<u8>, Page)> returned
MetadataBlock_try_read(block, offset, ch) ==
    LET i == FindPage(block, offset \div PAGE) IN
    IF i = 0 THEN [panic |-> FALSE, res |-> None]
    ELSE LET rd == Page_read(block.pages[i], offset, ch) IN
         IF rd.panic THEN [panic |-> TRUE, res |-> None]
         ELSE [panic |-> FALSE, res |-> Some(<<rd.data, block.pages[i]>>)]

\* the capacity test written `self.pages.len() > 5`
MetadataBlock_is_full_off_by_one(block) == Len(block.pages) > BlockPages

\* the test `self.pages.len() >= 5`
MetadataBlock_is_full(block) == Len(block.pages) >= BlockPages

\* try_write without `self.pages.push(page)`
MetadataBlock_try_write_no_push(block, offset, data, ch) ==
    LET i == FindPage(block, offset \div PAGE) IN
    IF i # 0
    THEN LET w == Page_write(block.pages[i], offset, data, ch) IN
         IF w.panic
         THEN [panic |-> TRUE, res |-> None, block |-> block, ch |-> ch]
         ELSE [panic |-> FALSE, res |-> Some(<<w.data, w.page>>),
               block |-> [block EXCEPT !.pages[i] = w.page], ch |-> ch]
    ELSE IF MetadataBlock_is_full(block)
    THEN [panic |-> FALSE, res |-> None, block |-> block, ch |-> ch]
    ELSE LET w == Page_write(Page_new(offset \div PAGE), offset, data, ch)
             u == MetadataBlock_update_message(block, ch)
         IN [panic |-> u.panic, res |-> Some(<<w.data, w.page>>),
             block |-> u.block, ch |-> u.ch]

\* [panic, res, block, ch]: res is the Option<(Vec<u8>, Page)> returned
MetadataBlock_try_write(block, offset, data, ch) ==
    LET i == FindPage(block, offset \div PAGE) IN
    IF i # 0
    THEN LET w == Page_write(block.pages[i], offset, data, ch) IN
         IF w.panic
         THEN [panic |-> TRUE, res |-> None, block |-> block, ch |-> ch]
         ELSE [panic |-> FALSE, res |-> Some(<<w.data, w.page>>),
               block |-> [block EXCEPT !.pages[i] = w.page], ch |-> ch]
    ELSE IF MetadataBlock_is_full(block)
    THEN [panic |-> FALSE, res |-> None, block |-> block, ch |-> ch]
    ELSE LET w == Page_write(Page_new(offset \div PAGE), offset, data, ch)
             b == [block EXCEPT !.pages = Append(block.pages, w.page)]
             u == MetadataBlock_update_message(b, ch)
         IN [panic |-> u.panic, res |-> Some(<<w.data, w.page>>),
             block |-> u.block, ch |-> u.ch]

\* update_page without `page.zero_mask = page_new.zero_mask`
MetadataBlock_update_page_keeps_mask(block, page_new, ch) ==
    LET i == FindPage(block, page_new.offset) IN
    IF i = 0 THEN [panic |-> FALSE, found |-> FALSE, block |-> block, ch |-> ch]
    ELSE LET b == [block EXCEPT !.pages[i].message_id = page_new.message_id]
             u == MetadataBlock_update_message(b, ch)
         IN [panic |-> u.panic, found |-> TRUE, block |-> u.block, ch |-> u.ch]

\* [panic, found, block, ch]: found is the bool update_page returns
MetadataBlock_update_page(block, page_new, ch) ==
    LET i == FindPage(block, page_new.offset) IN
    IF i = 0 THEN [panic |-> FALSE, found |-> FALSE, block |-> block, ch |-> ch]
    ELSE LET b == [block EXCEPT !.pages[i].message_id = page_new.message_id,
                                !.pages[i].zero_mask = page_new.zero_mask]
             u == MetadataBlock_update_message(b, ch)
         IN [panic |-> u.panic, found |-> TRUE, block |-> u.block, ch |-> u.ch]

\* spec.md 4.5 (Flush): move_to_bottom relocates the block's record in the
\* channel; the record keeps its text and the block its pages
MetadataBlock_move_to_bottom(block, ch) == [block |-> block, ch |-> ch]

\* ------------------------------------------------------------ state
VARIABLES
    meta,         \* Arc<Mutex<Vec<MetadataBlock>>>: the blocks
    meta_lock,    \* holder of that mutex: "free", "fg" or "worker"
    cache,        \* Cache<4>.data
    queue,        \* Queue<4>.data
    is_syncing,   \* Queue.is_syncing
    channel,      \* the messages of the channel
    fg,           \* the foreground (request) thread
    wk,           \* the sync thread
    disk,         \* per request offset, the byte of the most recent write
    ops,          \* requests begun so far
    flushing,     \* entries queued or cached when flush was called, not yet synced
    scenario,     \* which inputs the run draws from
    tcache,       \* the bare Cache of the cache scenario
    tlog,         \* what the last operation on tcache did
    util          \* the value a conversion scenario works on

vars == <<meta, meta_lock, cache, queue, is_syncing, channel, fg, wk, disk,
          ops, flushing, scenario, tcache, tlog, util>>

\* request offsets: first, second and last sub-block of page 0, first of page 1
Offsets ==
    IF scenario \in {"pressure", "live"} THEN {CHUNK, PAGE}
    ELSE {0, CHUNK, PAGE - CHUNK, PAGE}

\* the byte a written chunk is filled with
DataBytes == IF scenario \in {"pressure", "live"} THEN {1} ELSE {0, 1}

OpsLimit ==
    IF scenario = "pressure" THEN MaxOpsPressure
    ELSE IF scenario = "live" THEN MaxOpsLive
    ELSE MaxOps

\* ------------------------------------------------------------ loaded state
\* A block holding five pages and a block holding one, as a previous run
\* left them in the channel: every page persisted, sub-block 1 of page 0 zero.
LoadedFile(pageoff) ==
    IF pageoff = 0 THEN Splice(Fill(PAGE, 2), CHUNK, Fill(CHUNK, 0))
    ELSE Fill(PAGE, 2)

LoadedMask(pageoff) ==
    IF pageoff = 0 THEN BitMask_set(BitMask_new, 1, TRUE) ELSE BitMask_new

LoadedFull ==
    [message_id |-> 6,
     pages |-> << Page_of(0, 1, LoadedMask(0)), Page_of(2, 2, LoadedMask(2)),
                  Page_of(3, 3, LoadedMask(3)), Page_of(4, 4, LoadedMask(4)),
                  Page_of(5, 5, LoadedMask(5)) >>]

LoadedPart ==
    [message_id |-> 8, pages |-> << Page_of(6, 7, LoadedMask(6)) >>]

\* what load_all can return: nothing, or the blocks in either order
LoadedMetas ==
    { <<>>, <<LoadedFull>>, <<LoadedPart, LoadedFull>>, <<LoadedFull, LoadedPart>> }

LoadedChannel(m) ==
    LET pgs == {<<i, j>> \in (1..Len(m)) \X (1..BlockPages) : j <= Len(m[i].pages)}
        ids == {m[x[1]].pages[x[2]].message_id : x \in pgs}
        offOf(id) == (CHOOSE x \in pgs : m[x[1]].pages[x[2]].message_id = id)
        blk(id) == CHOOSE i \in 1..Len(m) : m[i].message_id = id
    IN [files |-> [id \in ids |->
                     LoadedFile(m[offOf(id)[1]].pages[offOf(id)[2]].offset)],
        texts |-> [id \in {m[i].message_id : i \in 1..Len(m)} |->
                     MetadataBlock_as_text(m[blk(id)])],
        next |-> 9]

\* first byte of the sub-block at offset o, as the loaded blocks define it
LoadedByte(m, ch, o) ==
    LET has == {i \in 1..Len(m) : FindPage(m[i], o \div PAGE) # 0} IN
    IF has = {} THEN 0
    ELSE LET i == CHOOSE i \in has : TRUE
             pg == m[i].pages[FindPage(m[i], o \div PAGE)]
         IN IF BitMask_get(pg.zero_mask, (o % PAGE) \div CHUNK) THEN 0
            ELSE Slice(ch.files[pg.message_id], o % PAGE, 1)[1][2]

FgIdle ==
    [pc |-> "idle", op |-> "none", offset |-> 0, data |-> <<>>,
     reclaimed |-> FALSE, pend |-> <<>>, ret |-> "idle", go |-> FALSE,
     io |-> "none", block |-> None, result |-> None, nflush |-> 0]

WkIdle == [pc |-> "idle", block |-> None, io |-> "none"]

InitWith(sc, metas) ==
    /\ scenario = sc
    /\ meta \in metas
    /\ meta_lock = "free"
    /\ cache = <<>>
    /\ queue = <<>>
    /\ is_syncing = FALSE
    /\ channel = LoadedChannel(meta)
    /\ fg = FgIdle
    /\ wk = WkIdle
    /\ disk = [o \in Offsets |-> LoadedByte(meta, channel, o)]
    /\ ops = 0
    /\ flushing = {}
    /\ tcache = <<>>
    /\ tlog = [op |-> "none"]
    /\ util = [pc |-> "none"]

\* DiscordDrivePlugin::default: load_all, Queue::new + start_sync_thread, Cache::new
Init == InitWith("general", LoadedMetas)

InitPressure == InitWith("pressure", {<<>>})

InitLive == InitWith("live", {<<>>})

\* ------------------------------------------------------------ foreground
\* A panic (an unwrap of None or of a failed remote call) in a request ends
\* the process: no thread takes a step after it.
Running == fg.pc # "crashed"

\* DiscordDrivePlugin::cache ignoring the block Cache::push returns
Evicted_dropped(removed) == <<>>

\* DiscordDrivePlugin::cache: the evicted block, as the entry queue.push gets
Evicted(removed) ==
    IF removed = None THEN <<>>
    ELSE << QueueBlock_new(Page_of(removed[1].offset, removed[1].message_id,
                                   removed[1].mask), removed[1].data) >>

\* where the thread goes with these pushes pending
PushThen(pend, ret) == IF pend = <<>> THEN ret ELSE "push"

\* a request of the device (read_at / write_at / flush) arrives
Arrive(op, offset, data) ==
    [FgIdle EXCEPT !.op = op, !.offset = offset, !.data = data]

\* read_cache / write_cache up to the call of cache(): release_offset and push
Reclaim(f, ret) ==
    LET rel == Queue_release_offset(queue, f.offset \div PAGE) IN
    IF rel.found = None
    THEN /\ fg' = [f EXCEPT !.pc = ret]
         /\ UNCHANGED <<queue, cache>>
    ELSE LET e == rel.found[1]
             cp == Cache_push(cache, CacheS,
                     CacheBlock_new(f.offset \div PAGE, e.page.message_id,
                                    e.data, e.page.zero_mask))
         IN /\ queue' = rel.queue
            /\ cache' = cp.cache
            /\ fg' = [f EXCEPT !.reclaimed = TRUE,
                               !.pend = Evicted(cp.removed),
                               !.ret = ret,
                               !.pc = PushThen(Evicted(cp.removed), ret)]

\* read: entry, read_cache's release_offset
ReadBegin ==
    /\ Running /\ fg.pc = "idle" /\ ops < OpsLimit
    /\ \E o \in Offsets : Reclaim(Arrive("read", o, <<>>), "rc_ret")
    /\ ops' = ops + 1
    /\ UNCHANGED <<meta, meta_lock, is_syncing, channel, wk, disk, flushing,
                   scenario, tcache, tlog, util>>

\* read_cache: self.cache.read(offset), then read's test of the result
ReadCacheRet ==
    /\ Running /\ fg.pc = "rc_ret"
    /\ LET r == Cache_read(cache, fg.offset) IN
       fg' = IF r = None THEN [fg EXCEPT !.pc = "read_dir"]
             ELSE [fg EXCEPT !.pc = "idle", !.result = r]
    /\ UNCHANGED <<meta, meta_lock, cache, queue, is_syncing, channel, wk, disk,
                   ops, flushing, scenario, tcache, tlog, util>>

\* index of the first block whose try_read is not None, 0 if none
ScanRead(m, offset) ==
    LET hits == {i \in 1..Len(m) : FindPage(m[i], offset \div PAGE) # 0}
    IN IF hits = {} THEN 0 ELSE CHOOSE i \in hits : \A j \in hits : i <= j

\* read: meta.lock() and the scan up to the first remote call
ReadDirLock ==
    /\ Running /\ fg.pc = "read_dir" /\ meta_lock = "free"
    /\ LET i == ScanRead(meta, fg.offset) IN
       IF i = 0
       THEN /\ fg' = [fg EXCEPT !.pc = "idle", !.result = Some(Fill(CHUNK, 0))]
            /\ UNCHANGED meta_lock
       ELSE /\ meta_lock' = "fg"
            /\ fg' = [fg EXCEPT !.pc = "read_try",
                        !.io = IF Page_read_fetches(
                                     meta[i].pages[FindPage(meta[i], fg.offset \div PAGE)],
                                     fg.offset)
                               THEN "fetch" ELSE "none"]
    /\ UNCHANGED <<meta, cache, queue, is_syncing, channel, wk, disk, ops,
                   flushing, scenario, tcache, tlog, util>>

\* drop(meta) left out: the mutex stays with its holder
Drop_meta_forgotten(holder) == holder

\* drop(meta): the holder of the mutex once the guard is dropped
Drop_meta(holder) == "free"

\* read: try_read returns, drop(meta), cache()
ReadDirDone ==
    /\ Running /\ fg.pc = "read_try"
    /\ LET i == ScanRead(meta, fg.offset)
           t == MetadataBlock_try_read(meta[i], fg.offset, channel)
       IN IF t.panic
          THEN /\ fg' = [fg EXCEPT !.pc = "crashed"]
               /\ UNCHANGED <<meta_lock, cache>>
          ELSE LET cp == Cache_push(cache, CacheS,
                           CacheBlock_new(fg.offset \div PAGE, t.res[1][2].message_id,
                                          t.res[1][1], t.res[1][2].zero_mask))
               IN /\ meta_lock' = Drop_meta(meta_lock)
                  /\ cache' = cp.cache
                  /\ fg' = [fg EXCEPT !.io = "none",
                                      !.pend = Evicted(cp.removed),
                                      !.ret = "read_unwrap",
                                      !.pc = PushThen(Evicted(cp.removed), "read_unwrap")]
    /\ UNCHANGED <<meta, queue, is_syncing, channel, wk, disk, ops, flushing,
                   scenario, tcache, tlog, util>>

\* read: self.cache.read(offset).unwrap()
ReadUnwrap ==
    /\ Running /\ fg.pc = "read_unwrap"
    /\ LET r == Cache_read(cache, fg.offset) IN
       fg' = IF r = None THEN [fg EXCEPT !.pc = "crashed"]
             ELSE [fg EXCEPT !.pc = "idle", !.result = r]
    /\ UNCHANGED <<meta, meta_lock, cache, queue, is_syncing, channel, wk, disk,
                   ops, flushing, scenario, tcache, tlog, util>>

\* write: entry, write_cache's release_offset
WriteBegin ==
    /\ Running /\ fg.pc = "idle" /\ ops < OpsLimit
    /\ \E o \in Offsets, b \in DataBytes :
          /\ Reclaim(Arrive("write", o, Fill(CHUNK, b)), "wc_ret")
          /\ disk' = [disk EXCEPT ![o] = b]
    /\ ops' = ops + 1
    /\ UNCHANGED <<meta, meta_lock, is_syncing, channel, wk, flushing,
                   scenario, tcache, tlog, util>>

\* write_cache: self.cache.write(offset, dataa), then write's test of the result
WriteCacheRet ==
    /\ Running /\ fg.pc = "wc_ret"
    /\ LET w == Cache_write(cache, fg.offset, fg.data) IN
       /\ cache' = w.cache
       /\ fg' = IF w.ok THEN [fg EXCEPT !.pc = "idle"]
                ELSE [fg EXCEPT !.pc = "write_dir"]
    /\ UNCHANGED <<meta, meta_lock, queue, is_syncing, channel, wk, disk, ops,
                   flushing, scenario, tcache, tlog, util>>

\* the scan of write stopping only at a block that has the page
ScanWrite_has_page(m, offset) ==
    LET hits == {i \in 1..Len(m) : FindPage(m[i], offset \div PAGE) # 0}
    IN IF hits = {} THEN 0 ELSE CHOOSE i \in hits : \A j \in hits : i <= j

\* index of the first block whose try_write is not None, 0 if none
ScanWrite(m, offset) ==
    LET hits == {i \in 1..Len(m) : \/ FindPage(m[i], offset \div PAGE) # 0
                                   \/ ~MetadataBlock_is_full(m[i])}
    IN IF hits = {} THEN 0 ELSE CHOOSE i \in hits : \A j \in hits : i <= j

\* the remote call try_write makes on the block it succeeds on
WriteIo(m, offset) ==
    LET i == ScanWrite(m, offset) IN
    IF i = 0 THEN "record"
    ELSE LET k == FindPage(m[i], offset \div PAGE) IN
         IF k = 0 THEN "record"
         ELSE IF Page_write_fetches(m[i].pages[k], offset) THEN "fetch"
         ELSE "none"

\* write: meta.lock() and the scan up to the first remote call
WriteDirLock ==
    /\ Running /\ fg.pc = "write_dir" /\ meta_lock = "free"
    /\ meta_lock' = "fg"
    /\ fg' = [fg EXCEPT !.pc = "write_try", !.io = WriteIo(meta, fg.offset)]
    /\ UNCHANGED <<meta, cache, queue, is_syncing, channel, wk, disk, ops,
                   flushing, scenario, tcache, tlog, util>>

\* write: try_write returns (on a block of meta, or on a new block),
\* drop(meta), cache()
WriteDirDone ==
    /\ Running /\ fg.pc = "write_try"
    /\ LET i == ScanWrite(meta, fg.offset)
           t == MetadataBlock_try_write(
                    IF i = 0 THEN MetadataBlock_empty(0) ELSE meta[i],
                    fg.offset, fg.data, channel)
       IN IF t.panic
          THEN /\ fg' = [fg EXCEPT !.pc = "crashed"]
               /\ UNCHANGED <<meta, meta_lock, cache, channel>>
          ELSE LET cp == Cache_push(cache, CacheS,
                           CacheBlock_new(fg.offset \div PAGE, t.res[1][2].message_id,
                                          t.res[1][1], t.res[1][2].zero_mask))
                   ret == IF i = 0 THEN "write_relock" ELSE "idle"
               IN /\ meta' = IF i = 0 THEN meta ELSE [meta EXCEPT ![i] = t.block]
                  /\ channel' = t.ch
                  /\ meta_lock' = Drop_meta(meta_lock)
                  /\ cache' = cp.cache
                  /\ fg' = [fg EXCEPT !.io = "none",
                                      !.block = IF i = 0 THEN Some(t.block) ELSE None,
                                      !.pend = Evicted(cp.removed),
                                      !.ret = ret,
                                      !.pc = PushThen(Evicted(cp.removed), ret)]
    /\ UNCHANGED <<queue, is_syncing, wk, disk, ops, flushing, scenario,
                   tcache, tlog, util>>

\* write: the second meta.lock() and meta.push(block)
WriteRelock ==
    /\ Running /\ fg.pc = "write_relock" /\ meta_lock = "free"
    /\ meta' = Append(meta, fg.block[1])
    /\ fg' = [fg EXCEPT !.pc = "idle", !.block = None]
    /\ UNCHANGED <<meta_lock, cache, queue, is_syncing, channel, wk, disk, ops,
                   flushing, scenario, tcache, tlog, util>>

\* Queue::push: one reading of the length (before the loop or in it)
QueuePushPoll ==
    /\ Running /\ fg.pc = "push" /\ ~fg.go
    /\ ~Queue_is_full(Len(queue))
    /\ fg' = [fg EXCEPT !.go = TRUE]
    /\ UNCHANGED <<meta, meta_lock, cache, queue, is_syncing, channel, wk, disk,
                   ops, flushing, scenario, tcache, tlog, util>>

\* Queue::push: the lock after the loop and sdata.push
QueuePushAppend ==
    /\ Running /\ fg.pc = "push" /\ fg.go
    /\ queue' = Append(queue, Head(fg.pend))
    /\ fg' = [fg EXCEPT !.go = FALSE, !.pend = Tail(fg.pend),
                        !.pc = PushThen(Tail(fg.pend), fg.ret)]
    /\ UNCHANGED <<meta, meta_lock, cache, is_syncing, channel, wk, disk, ops,
                   flushing, scenario, tcache, tlog, util>>

\* the cache blocks as the queue entries Server::flush pushes
RECURSIVE Drained(_)
Drained(c) ==
    IF c = <<>> THEN <<>>
    ELSE << QueueBlock_new(Page_of(Head(c).offset, Head(c).message_id, Head(c).mask),
                           Head(c).data) >> \o Drained(Tail(c))

SeqRange(q) == {q[i] : i \in 1..Len(q)}

\* Server::flush: entry, drain(..) of the cache
FlushBegin ==
    /\ Running /\ fg.pc = "idle" /\ ops < OpsLimit
    /\ cache' = <<>>
    /\ fg' = [Arrive("flush", 0, <<>>) EXCEPT
                 !.pend = Drained(cache), !.ret = "qflush_len",
                 !.nflush = Len(queue) + Len(cache),
                 !.pc = PushThen(Drained(cache), "qflush_len")]
    /\ flushing' = SeqRange(queue) \cup SeqRange(Drained(cache))
    /\ ops' = ops + 1
    /\ UNCHANGED <<meta, meta_lock, queue, is_syncing, channel, wk, disk,
                   scenario, tcache, tlog, util>>

\* Queue::flush: a reading of the length that finds the queue empty
QueueFlushLen ==
    /\ Running /\ fg.pc = "qflush_len"
    /\ ~(Len(queue) > 0)
    /\ fg' = [fg EXCEPT !.pc = "qflush_sync"]
    /\ UNCHANGED <<meta, meta_lock, cache, queue, is_syncing, channel, wk, disk,
                   ops, flushing, scenario, tcache, tlog, util>>

\* Queue::flush returning as soon as the queue is empty
Queue_flush_no_wait(syncing) == FALSE

\* the loop test of Queue::flush on is_syncing
Queue_flush_waits(syncing) == syncing

\* Queue::flush: a load of is_syncing that finds it false; flush returns
QueueFlushSync ==
    /\ Running /\ fg.pc = "qflush_sync"
    /\ ~Queue_flush_waits(is_syncing)
    /\ fg' = [fg EXCEPT !.pc = "flush_lock"]
    /\ UNCHANGED <<meta, meta_lock, cache, queue, is_syncing, channel, wk, disk,
                   ops, flushing, scenario, tcache, tlog, util>>

\* Server::flush: meta.lock() before the move_to_bottom loop
FlushLock ==
    /\ Running /\ fg.pc = "flush_lock" /\ meta_lock = "free"
    /\ meta_lock' = "fg"
    /\ fg' = [fg EXCEPT !.pc = "flush_move",
                        !.io = IF meta = <<>> THEN "none" ELSE "relocate"]
    /\ UNCHANGED <<meta, cache, queue, is_syncing, channel, wk, disk, ops,
                   flushing, scenario, tcache, tlog, util>>

RECURSIVE MoveAll(_, _)
MoveAll(m, ch) ==
    IF m = <<>> THEN [meta |-> <<>>, ch |-> ch]
    ELSE LET h == MetadataBlock_move_to_bottom(Head(m), ch)
             r == MoveAll(Tail(m), h.ch)
         IN [meta |-> <<h.block>> \o r.meta, ch |-> r.ch]

\* Server::flush: the move_to_bottom loop, then the guard is dropped
FlushMove ==
    /\ Running /\ fg.pc = "flush_move"
    /\ meta' = MoveAll(meta, channel).meta
    /\ channel' = MoveAll(meta, channel).ch
    /\ meta_lock' = "free"
    /\ fg' = [fg EXCEPT !.pc = "idle", !.io = "none"]
    /\ UNCHANGED <<cache, queue, is_syncing, wk, disk, ops, flushing, scenario,
                   tcache, tlog, util>>

\* ------------------------------------------------------------ sync thread
\* the loop body without is_syncing.store(true): the flag stays as it is
Syncing_on_take_missing(syncing) == syncing

\* is_syncing.store(true), made with the queue mutex held, before the pop
Syncing_on_take(syncing) == TRUE

\* the loop body up to drop(sdata): is_syncing.store(true), sdata.pop()
WorkerTake ==
    /\ Running /\ wk.pc = "idle"
    /\ ~(Len(queue) = 0)
    /\ is_syncing' = Syncing_on_take(is_syncing)
    /\ queue' = Queue_pop(queue).queue
    /\ wk' = [wk EXCEPT !.pc = "sync", !.block = Queue_pop(queue).block,
                        !.io = "upload"]
    /\ UNCHANGED <<meta, meta_lock, cache, channel, fg, disk, ops, flushing,
                   scenario, tcache, tlog, util>>

\* QueueBlock::sync: Page::update_message
WorkerSync ==
    /\ Running /\ wk.pc = "sync"
    /\ LET u == Page_update_message(wk.block[1].page, wk.block[1].data, channel) IN
       /\ channel' = u.ch
       /\ wk' = [wk EXCEPT !.pc = "lock", !.io = "none",
                           !.block = Some([wk.block[1] EXCEPT !.page = u.page])]
    /\ UNCHANGED <<meta, meta_lock, cache, queue, is_syncing, fg, disk, ops,
                   flushing, scenario, tcache, tlog, util>>

\* index of the first block whose update_page returns true, 0 if none
ScanUpdate(m, pageoff) ==
    LET hits == {i \in 1..Len(m) : FindPage(m[i], pageoff) # 0}
    IN IF hits = {} THEN 0 ELSE CHOOSE i \in hits : \A j \in hits : i <= j

\* metadata.lock() and the scan up to the first remote call
WorkerLock ==
    /\ Running /\ wk.pc = "lock" /\ meta_lock = "free"
    /\ meta_lock' = "worker"
    /\ wk' = [wk EXCEPT !.pc = "update",
                !.io = IF ScanUpdate(meta, wk.block[1].page.offset) = 0
                       THEN "none" ELSE "record"]
    /\ UNCHANGED <<meta, cache, queue, is_syncing, channel, fg, disk, ops,
                   flushing, scenario, tcache, tlog, util>>

\* the update_page loop; the guard is dropped at the end of the async block.
\* A panic in update_message ends the thread with the mutex poisoned.
WorkerUpdate ==
    /\ Running /\ wk.pc = "update"
    /\ LET i == ScanUpdate(meta, wk.block[1].page.offset)
           u == MetadataBlock_update_page(meta[i], wk.block[1].page, channel)
       IN IF i = 0
          THEN /\ meta_lock' = "free"
               /\ wk' = [wk EXCEPT !.pc = "clear", !.io = "none"]
               /\ UNCHANGED <<meta, channel, flushing>>
          ELSE IF u.panic
          THEN /\ meta_lock' = "poisoned"
               /\ wk' = [wk EXCEPT !.pc = "dead", !.io = "none"]
               /\ UNCHANGED <<meta, channel, flushing>>
          ELSE /\ meta' = [meta EXCEPT ![i] = u.block]
               /\ channel' = u.ch
               /\ flushing' = {e \in flushing :
                                 ~(e.page.offset = wk.block[1].page.offset
                                   /\ e.page.zero_mask = wk.block[1].page.zero_mask
                                   /\ e.data = wk.block[1].data)}
               /\ meta_lock' = "free"
               /\ wk' = [wk EXCEPT !.pc = "clear", !.io = "none"]
    /\ UNCHANGED <<cache, queue, is_syncing, fg, disk, ops, scenario, tcache, tlog,
                   util>>

\* is_syncing.store(false)
WorkerClear ==
    /\ Running /\ wk.pc = "clear"
    /\ is_syncing' = FALSE
    /\ wk' = WkIdle
    /\ UNCHANGED <<meta, meta_lock, cache, queue, channel, fg, disk, ops,
                   flushing, scenario, tcache, tlog, util>>

Next ==
    \/ ReadBegin \/ ReadCacheRet \/ ReadDirLock \/ ReadDirDone \/ ReadUnwrap
    \/ WriteBegin \/ WriteCacheRet \/ WriteDirLock \/ WriteDirDone \/ WriteRelock
    \/ QueuePushPoll \/ QueuePushAppend
    \/ FlushBegin \/ QueueFlushLen \/ QueueFlushSync \/ FlushLock \/ FlushMove
    \/ WorkerTake \/ WorkerSync \/ WorkerLock \/ WorkerUpdate \/ WorkerClear

Spec == Init /\ [][Next]_vars

SpecPressure == InitPressure /\ [][Next]_vars

\* The steps a thread takes inside a request or a sync. Those of FgWait and
\* WkWait are a lock(), a reading of the queue or of is_syncing, or the code
\* up to the next of these; those of FgCompute and WkCompute run a call that
\* returns (try_read, Cache::write, try_write, the update_page loop) and are
\* enabled by the position of the thread alone.
FgWait ==
    \/ ReadCacheRet \/ ReadDirLock \/ ReadUnwrap
    \/ WriteDirLock \/ WriteRelock
    \/ QueuePushPoll \/ QueuePushAppend
    \/ QueueFlushLen \/ QueueFlushSync \/ FlushLock \/ FlushMove

FgCompute == ReadDirDone \/ WriteCacheRet \/ WriteDirDone

FgComputeEnabled == Running /\ fg.pc \in {"read_try", "wc_ret", "write_try"}

WkWait == WorkerTake \/ WorkerSync \/ WorkerLock \/ WorkerClear

WkCompute == WorkerUpdate

WkComputeEnabled == Running /\ wk.pc = "update"

\* Both threads are scheduled and every remote call returns: a thread that
\* can take a step eventually takes one (weak fairness of each group of
\* steps, written out for the two whose enabling condition is stated above).
\* Requests arrive as the device sends them, under no obligation.
SpecLive ==
    /\ InitLive /\ [][Next]_vars
    /\ WF_vars(FgWait) /\ WF_vars(WkWait)
    /\ ([]<>(~FgComputeEnabled) \/ []<><<FgCompute>>_vars)
    /\ ([]<>(~WkComputeEnabled) \/ []<><<WkCompute>>_vars)

\* ------------------------------------------------------------ bare cache
\* test_cache: a Cache<2> alone, its blocks keyed by byte offset; the plugin's
\* capacity is exercised on the same operations.
CacheCaps == {TestCacheS, CacheS}

TestOffsets == {0, PAGE, 2 * PAGE}

InitCache ==
    /\ scenario = "cache"
    /\ meta = <<>> /\ meta_lock = "free" /\ cache = <<>> /\ queue = <<>>
    /\ is_syncing = FALSE /\ channel = Channel_new
    /\ fg = FgIdle /\ wk = WkIdle
    /\ disk = [o \in {} |-> 0]
    /\ ops = 0 /\ flushing = {}
    /\ tcache = <<>>
    /\ util = [pc |-> "none"]
    /\ \E cap \in CacheCaps :
          tlog = [op |-> "new", cap |-> cap, fifo |-> <<>>, before |-> <<>>,
                  block |-> None, removed |-> None, pushed |-> <<>>]

\* cache.push(CacheBlock { offset, data: vec![b; 8*MB], mask: BitMask::new() })
TestPush ==
    /\ scenario = "cache" /\ ops < MaxCacheOps
    /\ \E o \in TestOffsets :
          LET blk == CacheBlock_new(o, 0, Fill(PAGE, o \div PAGE), BitMask_new)
              r == Cache_push(tcache, tlog.cap, blk)
          IN /\ tcache' = r.cache
             /\ tlog' = [tlog EXCEPT
                           !.op = "push", !.before = tcache, !.block = Some(blk),
                           !.removed = r.removed,
                           !.pushed = Append(tlog.pushed, o),
                           !.fifo = IF Len(tlog.fifo) = tlog.cap
                                    THEN Append(Tail(tlog.fifo), o)
                                    ELSE Append(tlog.fifo, o)]
    /\ ops' = ops + 1
    /\ UNCHANGED <<meta, meta_lock, cache, queue, is_syncing, channel, fg, wk,
                   disk, flushing, scenario, util>>

\* cache.read(offset)
TestRead ==
    /\ scenario = "cache" /\ ops < MaxCacheOps
    /\ \E o \in TestOffsets :
          tlog' = [tlog EXCEPT !.op = "read", !.before = tcache, !.block = None,
                               !.removed = Cache_read(tcache, o)]
    /\ ops' = ops + 1
    /\ UNCHANGED <<meta, meta_lock, cache, queue, is_syncing, channel, fg, wk,
                   disk, flushing, scenario, tcache, util>>

\* cache.write(offset, &[b; 4096])
TestWrite ==
    /\ scenario = "cache" /\ ops < MaxCacheOps
    /\ \E o \in {0, CHUNK}, b \in {0, 1} :
          /\ tcache' = Cache_write(tcache, o, Fill(CHUNK, b)).cache
          /\ tlog' = [tlog EXCEPT !.op = "write", !.before = tcache,
                                  !.block = None, !.removed = None]
    /\ ops' = ops + 1
    /\ UNCHANGED <<meta, meta_lock, cache, queue, is_syncing, channel, fg, wk,
                   disk, flushing, scenario, util>>

NextCache == TestPush \/ TestRead \/ TestWrite

SpecCache == InitCache /\ [][NextCache]_vars

\* ------------------------------------------------------------ conversions
\* The scenarios below apply one conversion to values drawn at the start;
\* the storage engine stays as constructed.
storage == <<meta, meta_lock, cache, queue, is_syncing, channel, fg, wk, disk,
             ops, flushing, tcache, tlog>>

InitQuiet(sc) ==
    /\ scenario = sc
    /\ meta = <<>> /\ meta_lock = "free" /\ cache = <<>> /\ queue = <<>>
    /\ is_syncing = FALSE /\ channel = Channel_new
    /\ fg = FgIdle /\ wk = WkIdle
    /\ disk = [o \in {} |-> 0]
    /\ ops = 0 /\ flushing = {}
    /\ tcache = <<>> /\ tlog = [op |-> "none"]

\* ------------------------------------------------------------ block text
\* metadata_block of the tests of metadata.rs, over more blocks: a block is
\* written with as_text and read back with from_text under its message id.
\* Zero masks: none, sub-block 0, sub-block 1, sub-blocks 2, 3 and 6 (the
\* byte 76), sub-blocks 26, 27 and 30, the last byte full.
TextMasks ==
    { BitMask_new,
      BitMask_set(BitMask_new, 0, TRUE),
      LoadedMask(0),
      BitMask_set(BitMask_set(BitMask_set(BitMask_new, 2, TRUE), 3, TRUE), 6, TRUE),
      BitMask_set(BitMask_set(BitMask_set(BitMask_new, 26, TRUE), 27, TRUE), 30, TRUE),
      WithByte(BitMask_new, MaskS - 1, 255) }

TextIds == {8, 1234567890}

\* page index and message id of the i-th page of a block
TextOffsets == <<0, 2, 33, 1024, 1048575>>
TextHandles == <<1234567891, 2, 31, 32, 1073741824>>

TextBlock(id, n, k, mask) ==
    [message_id |-> id,
     pages |-> [i \in 1..n |->
                  Page_of(TextOffsets[i], TextHandles[i],
                          IF i = k THEN mask ELSE BitMask_new)]]

TextBlocks ==
    { TextBlock(id, n, k, mask) :
        id \in TextIds, n \in 0..BlockPages, k \in 1..BlockPages, mask \in TextMasks }

InitText ==
    /\ InitQuiet("text")
    /\ \E b \in TextBlocks :
          util = [pc |-> "block", block |-> b, text |-> <<>>, parsed |-> None]

\* let text = block.as_text()
TextSerialize ==
    /\ scenario = "text" /\ util.pc = "block"
    /\ util' = [util EXCEPT !.pc = "text",
                            !.text = MetadataBlock_as_text(util.block)]
    /\ UNCHANGED <<storage, scenario>>

\* MetadataBlock::from_text(message_id, &text)
TextParse ==
    /\ scenario = "text" /\ util.pc = "text"
    /\ util' = [util EXCEPT !.pc = "parsed",
                  !.parsed = Some(MetadataBlock_from_text(util.block.message_id,
                                                          util.text))]
    /\ UNCHANGED <<storage, scenario>>

NextText == TextSerialize \/ TextParse

SpecText == InitText /\ [][NextText]_vars

\* ------------------------------------------------------------ bit mask
\* test_bitmask of utils.rs on a BitMask<256>: bits are set and cleared and
\* the mask is taken through as_bytes and from_bytes.
\* bit indices: both ends of the first byte, the second byte, the last byte
MaskIndices == {0, 1, 7, 8, MaskS * 8 - 8, MaskS * 8 - 1}

\* masks at the start: BitMask::new(), and one with bits in two bytes
MaskStarts == {BitMask_new, BitMask_from_bytes(<<76, 0, 129>>)}

\* the indices of the bits of a mask that are set
BitsOf(mask) == {j \in 0..(MaskS * 8 - 1) : BitMask_get(mask, j)}

InitMask ==
    /\ InitQuiet("mask")
    /\ \E s \in MaskStarts :
          util = [pc |-> "mask", mask |-> s, on |-> BitsOf(s), n |-> 0,
                  last |-> [op |-> "new", index |-> 0, value |-> FALSE,
                            before |-> s]]

\* mask.set(index, value)
MaskSet ==
    /\ scenario = "mask" /\ util.n < MaxMaskOps
    /\ \E i \in MaskIndices, v \in BOOLEAN :
          util' = [util EXCEPT
                     !.mask = BitMask_set(util.mask, i, v),
                     !.on = IF v THEN util.on \cup {i} ELSE util.on \ {i},
                     !.n = util.n + 1,
                     !.last = [op |-> "set", index |-> i, value |-> v,
                               before |-> util.mask]]
    /\ UNCHANGED <<storage, scenario>>

\* BitMask::from_bytes(mask.as_bytes())
MaskBytes ==
    /\ scenario = "mask" /\ util.n < MaxMaskOps
    /\ util' = [util EXCEPT
                  !.mask = BitMask_from_bytes(BitMask_as_bytes(util.mask)),
                  !.n = util.n + 1,
                  !.last = [op |-> "bytes", index |-> 0, value |-> FALSE,
                            before |-> util.mask]]
    /\ UNCHANGED <<storage, scenario>>

NextMask == MaskSet \/ MaskBytes

SpecMask == InitMask /\ [][NextMask]_vars

\* ------------------------------------------------------------ base 32
\* The tests to_base32 / from_base32 / base32_zero of utils.rs over more
\* values: every u64 whose 16-bit limbs are 0, 1 or 65535, the values around
\* one and two digits, 1234567890 and 2^63.
Base32Values ==
    { <<a, b, c, d>> : a \in {0, 1, LIMB - 1}, b \in {0, 1, LIMB - 1},
                       c \in {0, 1, LIMB - 1}, d \in {0, 1, LIMB - 1} }
    \cup { U64_of(31), U64_of(32), U64_of(33), U64_of(1023), U64_of(1024),
           U64_of(1234567890), <<0, 0, 0, LIMB \div 2>> }

InitBase32 ==
    /\ InitQuiet("base32")
    /\ \E x \in Base32Values :
          util = [pc |-> "value", x |-> x, text |-> <<>>, back |-> None]

\* let value = to_base32(x)
Base32Encode ==
    /\ scenario = "base32" /\ util.pc = "value"
    /\ util' = [util EXCEPT !.pc = "encoded", !.text = to_base32(util.x)]
    /\ UNCHANGED <<storage, scenario>>

\* from_base32(&value)
Base32Decode ==
    /\ scenario = "base32" /\ util.pc = "encoded"
    /\ util' = [util EXCEPT !.pc = "decoded",
                            !.back = Some(from_base32(util.text))]
    /\ UNCHANGED <<storage, scenario>>

NextBase32 == Base32Encode \/ Base32Decode

SpecBase32 == InitBase32 /\ [][NextBase32]_vars

\* ------------------------------------------------------------ bare queue
\* A Queue<4> used through push, pop and release_offset alone. The entry of
\* the n-th push carries n as the message id of its page.
QueuePages == {0, 1, 2}

InitQueue ==
    /\ InitQuiet("queue")
    /\ util = [pc |-> "queue", q |-> <<>>, n |-> 0, pushed |-> 0,
               last |-> [op |-> "new", arg |-> 0, before |-> <<>>, ret |-> None]]

\* queue.push(page, data) on a queue that is not full
QueueTestPush ==
    /\ scenario = "queue" /\ util.n < MaxQueueOps
    /\ ~Queue_is_full(Len(util.q))
    /\ \E p \in QueuePages :
          LET e == QueueBlock_new(Page_of(p, util.pushed + 1, BitMask_new),
                                  Fill(PAGE, 0))
          IN util' = [util EXCEPT
                        !.q = Append(util.q, e),
                        !.n = util.n + 1,
                        !.pushed = util.pushed + 1,
                        !.last = [op |-> "push", arg |-> p, before |-> util.q,
                                  ret |-> None]]
    /\ UNCHANGED <<storage, scenario>>

\* queue.pop()
QueueTestPop ==
    /\ scenario = "queue" /\ util.n < MaxQueueOps
    /\ util' = [util EXCEPT
                  !.q = Queue_pop(util.q).queue,
                  !.n = util.n + 1,
                  !.last = [op |-> "pop", arg |-> 0, before |-> util.q,
                            ret |-> Queue_pop(util.q).block]]
    /\ UNCHANGED <<storage, scenario>>

\* queue.release_offset(offset)
QueueTestRelease ==
    /\ scenario = "queue" /\ util.n < MaxQueueOps
    /\ \E p \in QueuePages :
          util' = [util EXCEPT
                     !.q = Queue_release_offset(util.q, p).queue,
                     !.n = util.n + 1,
                     !.last = [op |-> "release", arg |-> p, before |-> util.q,
                               ret |-> Queue_release_offset(util.q, p).found]]
    /\ UNCHANGED <<storage, scenario>>

NextQueue == QueueTestPush \/ QueueTestPop \/ QueueTestRelease

SpecQueue == InitQueue /\ [][NextQueue]_vars

\* ------------------------------------------------------------ claims
PagesOfCache == {cache[i].offset : i \in 1..Len(cache)}
PagesOfQueue == {queue[i].page.offset : i \in 1..Len(queue)}

\* C1: a completed read returns the bytes of the most recent write to its
\* sub-block (zeros, or the loaded content, if it was never written).
C1_ReadReturnsLastWrite ==
    (fg.pc = "idle" /\ fg.op = "read")
        => fg.result = Some(Fill(CHUNK, disk[fg.offset]))

\* C2: a read that reclaims its page from the queue is served from the cache
\* (it neither falls through to the blocks nor fails), returns the page's
\* last-written bytes, and leaves the page in the cache and out of the queue.
C2_EvictThenRead ==
    (fg.op = "read" /\ fg.reclaimed)
        => /\ fg.pc \in {"push", "rc_ret", "idle"}
           /\ fg.pc = "idle"
                => /\ fg.result = Some(Fill(CHUNK, disk[fg.offset]))
                   /\ (fg.offset \div PAGE) \in PagesOfCache
                   /\ (fg.offset \div PAGE) \notin PagesOfQueue

\* C3: the queue holds at most one entry per page index.
C3_QueueOnePerPage ==
    \A i, j \in 1..Len(queue) :
        queue[i].page.offset = queue[j].page.offset => i = j

\* C4: a page index has at most one live copy: never in the cache and in the
\* queue at once, never twice in the cache.
C4_OneLiveCopy ==
    /\ PagesOfCache \cap PagesOfQueue = {}
    /\ \A i, j \in 1..Len(cache) : cache[i].offset = cache[j].offset => i = j

\* C5: the queue never holds more than S entries; a push waiting on a queue
\* of S entries neither appends nor returns; the queue grows only by the
\* pending entry of a push that saw it below S, one entry at a time.
C5_BackPressure ==
    /\ [](Len(queue) <= QueueS)
    /\ [][ /\ (fg.pc = "push" /\ Len(queue) = QueueS)
                => (fg'.pc = "push" /\ fg'.pend = fg.pend
                    /\ Len(queue') <= Len(queue))
           /\ (Len(queue') > Len(queue))
                => (fg.pc = "push" /\ Len(queue) < QueueS
                    /\ queue' = Append(queue, Head(fg.pend))) ]_vars

C5_Witness == fg.pc = "push" /\ ~fg.go /\ Len(queue) = QueueS

\* C6: the cache never holds more than S entries; push on a full cache
\* removes and returns the oldest-inserted entry and keeps the others in
\* insertion order, whatever reads and writes came in between; push on a
\* cache that is not full returns nothing; after pushing pages 0, 1, 2 into
\* a cache of capacity 2, page 0 misses and pages 1 and 2 hit.
C6_CacheFifo ==
    /\ Len(tcache) <= tlog.cap
    /\ [i \in 1..Len(tcache) |-> tcache[i].offset] = tlog.fifo
    /\ tlog.op = "push" =>
          IF Len(tlog.before) = tlog.cap
          THEN /\ tlog.removed = Some(Head(tlog.before))
               /\ tcache = Append(Tail(tlog.before), tlog.block[1])
          ELSE /\ tlog.removed = None
               /\ tcache = Append(tlog.before, tlog.block[1])
    /\ (tlog.cap = TestCacheS /\ tlog.pushed = <<0, PAGE, 2 * PAGE>>) =>
          /\ Cache_read(tcache, 0) = None
          /\ Cache_read(tcache, PAGE) # None
          /\ Cache_read(tcache, 2 * PAGE) # None

C6_Witness ==
    /\ tlog.cap = TestCacheS /\ tlog.pushed = <<0, PAGE, 2 * PAGE>>
    /\ tlog.op = "push" /\ tlog.removed # None
    /\ tlog.before # <<>> /\ Head(tlog.before).data # Fill(PAGE, 0)

\* C7: once Queue::flush has returned the queue is empty, the sync thread is
\* idle, and every entry that was queued or cached when flush was called has
\* been uploaded and written into its block.
C7_FlushCheckpoint ==
    (fg.op = "flush" /\ fg.pc \in {"flush_lock", "flush_move", "idle"})
        => /\ queue = <<>>
           /\ ~is_syncing
           /\ wk.pc = "idle"
           /\ flushing = {}

C7_Witness ==
    /\ fg.op = "flush" /\ fg.pc = "flush_lock" /\ fg.nflush >= 2

\* C8: the mutex of the blocks is never held while a remote call is in
\* progress on the thread that holds it.
C8_NoLockAcrossRemote ==
    /\ meta_lock = "fg" => fg.io = "none"
    /\ meta_lock = "worker" => wk.io = "none"

\* C9: a page index is in the page list of at most one block, and only once.
C9_PageInOneBlock ==
    \A i, j \in 1..Len(meta) :
        \A k \in 1..Len(meta[i].pages), l \in 1..Len(meta[j].pages) :
            meta[i].pages[k].offset = meta[j].pages[l].offset
                => (i = j /\ k = l)

\* C10: no block holds more than 5 pages; try_write for a page the block does
\* not hold returns None on a block of 5 pages and leaves the block and the
\* channel as they are, and appends exactly one page to a block of fewer.
C10_BlockCapacity ==
    /\ \A i \in 1..Len(meta) : Len(meta[i].pages) <= BlockPages
    /\ fg.block # None => Len(fg.block[1].pages) <= BlockPages
    /\ \A i \in 1..Len(meta), o \in Offsets, b \in DataBytes :
          LET t == MetadataBlock_try_write(meta[i], o, Fill(CHUNK, b), channel) IN
          FindPage(meta[i], o \div PAGE) = 0 =>
              IF Len(meta[i].pages) = BlockPages
              THEN t.res = None /\ t.block = meta[i] /\ t.ch = channel
              ELSE /\ t.res # None
                   /\ Len(t.block.pages) = Len(meta[i].pages) + 1
                   /\ SubSeq(t.block.pages, 1, Len(meta[i].pages)) = meta[i].pages
                   /\ t.block.pages[Len(t.block.pages)].offset = o \div PAGE

C10_Witness ==
    /\ fg.op = "write" /\ fg.pc = "write_relock"
    /\ meta # <<>>
    /\ \A i \in 1..Len(meta) : Len(meta[i].pages) = BlockPages
    /\ Len(fg.block[1].pages) = 1

\* C11: a block read back with from_text from its as_text has the record id
\* it was read under and the same pages in the same order, each with the same
\* page index, the same message id and the same 256 zero-mask bytes.
C11_DirectoryRoundTrip ==
    util.pc = "parsed" =>
        LET p == util.parsed[1] IN
        /\ ~p.panic
        /\ p.block.message_id = util.block.message_id
        /\ Len(p.block.pages) = Len(util.block.pages)
        /\ \A i \in 1..Len(util.block.pages) :
              /\ p.block.pages[i].offset = util.block.pages[i].offset
              /\ p.block.pages[i].message_id = util.block.pages[i].message_id
              /\ BitMask_as_bytes(p.block.pages[i].zero_mask)
                    = BitMask_as_bytes(util.block.pages[i].zero_mask)

\* what a read of offset gets from a copy of its page: zeros if the zero-mask
\* bit of the sub-block is set, its 4 KiB of the buffer otherwise
CopyRead(blk, offset) ==
    IF BitMask_get(blk.mask, (offset % PAGE) \div CHUNK) THEN Fill(CHUNK, 0)
    ELSE Slice(blk.data, offset % PAGE, CHUNK)

\* C12: after a write of a 4 KiB chunk the copy of the page that took it has
\* the zero-mask bit of the sub-block set exactly if the chunk was all zero,
\* and a read of the sub-block from that copy returns the chunk: zeros after
\* a zero chunk, the written bytes after a non-zero chunk written over it.
\* This holds for a write served by the cache entry of the page and for a
\* write served by try_write, whose copy is the entry pushed into the cache.
C12_SparseWriteRead ==
    [][ /\ (fg.pc = "write_try" /\ fg'.pc # "crashed") =>
              LET blk == cache'[Len(cache')] IN
              /\ BitMask_get(blk.mask, (fg.offset % PAGE) \div CHUNK)
                    = AllZero(fg.data)
              /\ CopyRead(blk, fg.offset) = fg.data
        /\ (fg.pc = "wc_ret" /\ fg'.pc = "idle") =>
              LET i == Cache_find(cache, fg.offset) IN
              (cache[i].offset = fg.offset \div PAGE /\ cache[i].offset % CHUNK = 0) =>
                  /\ BitMask_get(cache'[i].mask, (fg.offset % PAGE) \div CHUNK)
                        = AllZero(fg.data)
                  /\ CopyRead(cache'[i], fg.offset) = fg.data ]_vars

\* the first, the second and the last 4 KiB-aligned offset of page p
SpanOffsets(p) == {p * PAGE, p * PAGE + CHUNK, (p + 1) * PAGE - CHUNK}

\* C13: every 4 KiB-aligned offset of the span of a page in the cache, the
\* first and the last included, is served by the entry of the page (the range
\* test covers it, Cache::read returns Some and Cache::write returns true),
\* and the entry serves no offset of another page.
C13_CacheCoverage ==
    \A i \in 1..Len(cache) :
        /\ \A o \in SpanOffsets(cache[i].offset) :
              /\ Cache_covers(cache[i], o)
              /\ Cache_read(cache, o) # None
              /\ Cache_write(cache, o, Fill(CHUNK, 1)).ok
        /\ \A q \in 0..(BlockPages + 1) : \A o \in SpanOffsets(q) :
              q # cache[i].offset => ~Cache_covers(cache[i], o)

\* C14: after set(i, v), get(i) is v and every other bit is as before; when
\* every bit that was set has been cleared again the bytes are all zero;
\* from_bytes(as_bytes(m)) is m.
C14_BitMask ==
    scenario = "mask" =>
        /\ util.last.op = "set" =>
              /\ BitMask_get(util.mask, util.last.index) = util.last.value
              /\ \A j \in 0..(MaskS * 8 - 1) :
                    j # util.last.index =>
                        BitMask_get(util.mask, j) = BitMask_get(util.last.before, j)
        /\ BitsOf(util.mask) = util.on
        /\ util.on = {} => BitMask_as_bytes(util.mask) = [i \in 1..MaskS |-> 0]
        /\ util.last.op = "bytes" =>
              /\ util.mask = util.last.before
              /\ BitMask_as_bytes(util.mask) = BitMask_as_bytes(util.last.before)

C14_Witness ==
    /\ scenario = "mask" /\ util.last.op = "set" /\ ~util.last.value
    /\ util.last.before # BitMask_new /\ util.on = {}
    /\ util.last.index = MaskS * 8 - 1

\* the value of the digits of text read most significant first
RECURSIVE Horner(_, _)
Horner(acc, text) ==
    IF text = <<>> THEN acc
    ELSE Horner(U64_add(U64_mul(acc, 32), U64_of(IndexOf(BASE32_ALPHABET, Head(text)))),
                Tail(text))

\* C15: from_base32(to_base32(x)) is x; to_base32(0) is "0";
\* to_base32(1234567890) is "14pc0mi"; the text of a non-zero value does not
\* start with '0', is made of the chars 0-9a-v and reads most significant
\* digit first.
C15_Base32 ==
    /\ util.pc = "decoded" =>
          /\ ~util.back[1].panic
          /\ util.back[1].value = util.x
    /\ util.pc \in {"encoded", "decoded"} =>
          /\ util.x = U64_of(0) => util.text = <<48>>
          /\ util.x = U64_of(1234567890) =>
                util.text = <<49, 52, 112, 99, 48, 109, 105>>
          /\ util.x # U64_of(0) => util.text[1] # 48
          /\ \A i \in 1..Len(util.text) :
                util.text[i] \in (48..57) \cup (97..118)
          /\ Horner(U64_of(0), util.text) = util.x

C15_Witness ==
    /\ util.pc = "decoded"
    /\ util.x = <<LIMB - 1, LIMB - 1, LIMB - 1, LIMB - 1>>
    /\ Len(util.text) = 13

\* the foreground thread is at a lock(), or in a loop of Queue::push or
\* Queue::flush, that the state does not let it leave
FgBlocked ==
    \/ /\ fg.pc \in {"read_dir", "write_dir", "write_relock", "flush_lock"}
       /\ meta_lock # "free"
    \/ fg.pc = "push" /\ ~fg.go /\ Queue_is_full(Len(queue))
    \/ fg.pc = "qflush_len" /\ Len(queue) > 0
    \/ fg.pc = "qflush_sync" /\ Queue_flush_waits(is_syncing)

\* the sync thread is at metadata.lock() with the mutex taken, or has ended
WkBlocked == (wk.pc = "lock" /\ meta_lock # "free") \/ wk.pc = "dead"

\* the sync thread polls an empty queue
WkSleeping == wk.pc = "idle" /\ Len(queue) = 0

\* C16: no reachable state is a deadlock: a blocked foreground thread has a
\* sync thread that can step, and a blocked sync thread a foreground thread
\* that can. The foreground thread does not hold the mutex of the blocks
\* while it waits in Queue::push or Queue::flush, nor when write locks it
\* again to append a new block.
C16_NoDeadlock ==
    Running =>
        /\ ~(FgBlocked /\ (WkBlocked \/ WkSleeping))
        /\ ~(WkBlocked /\ (fg.pc = "idle" \/ FgBlocked))
        /\ fg.pc \in {"push", "qflush_len", "qflush_sync"} => meta_lock # "fg"
        /\ fg.pc = "write_relock" => meta_lock # "fg"

C16_Witness ==
    /\ fg.pc = "push" /\ ~fg.go /\ Len(queue) = QueueS
    /\ wk.pc = "update" /\ meta_lock = "worker"

\* C17: with both threads scheduled, a Queue::push waiting on a full queue
\* eventually appends and returns, a flush that has begun eventually returns,
\* and every request that has begun eventually completes.
C17_Progress ==
    /\ (fg.pc = "push") ~> (fg.pc # "push")
    /\ (fg.op = "flush" /\ fg.pc # "idle") ~> (fg.op = "flush" /\ fg.pc = "idle")
    /\ (fg.pc # "idle") ~> (fg.pc = "idle")

\* the sub-blocks of a page the request offsets fall in
SubBlocks == {(o % PAGE) \div CHUNK : o \in Offsets}

\* data[s * 4096..(s + 1) * 4096] of an 8 MiB buffer
SubBlockOf(data, s) == Slice(data, s * CHUNK, CHUNK)

\* C18: try_read of a block that contains the page of the offset returns an
\* 8 MiB buffer in which every sub-block whose zero-mask bit is clear holds
\* the bytes stored at the page's remote handle and every sub-block whose bit
\* is set is zero, whichever sub-block the offset falls in; try_read of a
\* block that does not contain the page returns None.
C18_TryRead ==
    fg.pc = "read_try" =>
        \A j \in 1..Len(meta) :
            LET k == FindPage(meta[j], fg.offset \div PAGE)
                t == MetadataBlock_try_read(meta[j], fg.offset, channel)
            IN IF k = 0 THEN ~t.panic /\ t.res = None
               ELSE ~t.panic =>
                    /\ t.res # None
                    /\ BufLen(t.res[1][1]) = PAGE
                    /\ \A s \in SubBlocks :
                         SubBlockOf(t.res[1][1], s) =
                            IF BitMask_get(meta[j].pages[k].zero_mask, s)
                            THEN Fill(CHUNK, 0)
                            ELSE SubBlockOf(channel.files[meta[j].pages[k].message_id], s)

\* the block try_write of the request in progress succeeds on
WriteTarget ==
    IF ScanWrite(meta, fg.offset) = 0 THEN MetadataBlock_empty(0)
    ELSE meta[ScanWrite(meta, fg.offset)]

\* the remote handle the page of the request has before try_write
HandleBefore ==
    LET k == FindPage(WriteTarget, fg.offset \div PAGE) IN
    IF k = 0 THEN 0 ELSE WriteTarget.pages[k].message_id

\* C19: try_write uploads no page data and leaves the remote handle of the
\* page as it was, in the block and in the page it returns for the cache; the
\* attachments of the channel change only in the worker's QueueBlock::sync,
\* and the handle of a page of a block changes only in the worker's
\* update_page of a queue entry of that page.
C19_DeferredPersistence ==
    [][ /\ (fg.pc = "write_try" /\ fg'.pc # "crashed") =>
              /\ channel'.files = channel.files
              /\ cache'[Len(cache')].message_id = HandleBefore
              /\ LET b == IF ScanWrite(meta, fg.offset) = 0 THEN fg'.block[1]
                          ELSE meta'[ScanWrite(meta, fg.offset)]
                 IN b.pages[FindPage(b, fg.offset \div PAGE)].message_id
                        = HandleBefore
        /\ channel'.files # channel.files => wk.pc = "sync"
        /\ \A j \in 1..Len(meta) : \A k \in 1..Len(meta[j].pages) :
              meta'[j].pages[k].message_id # meta[j].pages[k].message_id =>
                  /\ wk.pc = "update"
                  /\ wk.block[1].page.offset = meta[j].pages[k].offset ]_vars

\* the first request, a write of a non-zero chunk to a persisted page, has
\* returned: the cache holds the patched buffer under the page's old handle
\* and the attachment at that handle still has the old bytes
C19_Witness ==
    /\ ops = 1 /\ fg.op = "write" /\ fg.pc = "idle" /\ ~AllZero(fg.data)
    /\ Len(cache) = 1
    /\ cache[1].message_id # 0
    /\ cache[1].message_id \in DOMAIN channel.files
    /\ cache[1].data # channel.files[cache[1].message_id]
    /\ \E j \in 1..Len(meta) :
          LET k == FindPage(meta[j], fg.offset \div PAGE) IN
          k # 0 /\ meta[j].pages[k].message_id = cache[1].message_id

\* whether a page is in the queue, in the cache or in a block of the directory
PageKnown(p) ==
    \/ \E i \in 1..Len(queue) : queue[i].page.offset = p
    \/ \E i \in 1..Len(cache) : cache[i].offset = p
    \/ \E j \in 1..Len(meta) : FindPage(meta[j], p) # 0

\* C20: a read of an offset whose page is in neither the queue, the cache nor
\* any block returns a 4 KiB zero buffer, and no step of the read changes the
\* cache, the queue or the blocks.
C20_UnknownRead ==
    [][ /\ (fg.pc = "idle" /\ fg'.pc # "idle" /\ fg'.op = "read"
                /\ ~PageKnown(fg'.offset \div PAGE)) =>
              /\ fg'.pc = "rc_ret"
              /\ cache' = cache /\ queue' = queue /\ meta' = meta
        /\ (fg.op = "read" /\ fg.pc # "idle" /\ fg' # fg
                /\ ~PageKnown(fg.offset \div PAGE)) =>
              /\ fg'.pc \in {"read_dir", "idle"}
              /\ fg'.pc = "idle" => fg'.result = Some(Fill(CHUNK, 0))
              /\ cache' = cache /\ queue' = queue /\ meta' = meta ]_vars

\* the entries of q other than e, in the order of q
Without(q, e) == SelectSeq(q, LAMBDA x : x # e)

\* C21: pop removes and returns the most recently pushed entry still in the
\* queue and leaves the other entries in their order; on an empty queue it
\* returns nothing and changes nothing. release_offset removes and returns
\* one entry of the page asked for, the oldest, and leaves the other entries
\* in their order; without such an entry it returns nothing and changes
\* nothing.
C21_QueueLifo ==
    scenario = "queue" =>
        /\ util.last.op = "pop" =>
              IF util.last.before = <<>>
              THEN util.last.ret = None /\ util.q = <<>>
              ELSE /\ util.last.ret # None
                   /\ \E i \in 1..Len(util.last.before) :
                         util.last.before[i] = util.last.ret[1]
                   /\ \A i \in 1..Len(util.last.before) :
                         util.last.before[i].page.message_id
                            <= util.last.ret[1].page.message_id
                   /\ util.q = Without(util.last.before, util.last.ret[1])
                   /\ Len(util.q) = Len(util.last.before) - 1
        /\ util.last.op = "release" =>
              IF \A i \in 1..Len(util.last.before) :
                    util.last.before[i].page.offset # util.last.arg
              THEN util.last.ret = None /\ util.q = util.last.before
              ELSE /\ util.last.ret # None
                   /\ util.last.ret[1].page.offset = util.last.arg
                   /\ \E i \in 1..Len(util.last.before) :
                         util.last.before[i] = util.last.ret[1]
                   /\ \A i \in 1..Len(util.last.before) :
                         util.last.before[i].page.offset = util.last.arg =>
                            util.last.before[i].page.message_id
                               >= util.last.ret[1].page.message_id
                   /\ util.q = Without(util.last.before, util.last.ret[1])
                   /\ Len(util.q) = Len(util.last.before) - 1

\* a pop of a queue of three entries whose newest had been pushed after a
\* release took an entry from the middle
C21_Witness ==
    /\ scenario = "queue" /\ util.last.op = "pop"
    /\ Len(util.last.before) = 3 /\ util.pushed = 4
    /\ util.last.ret # None /\ util.last.ret[1].page.message_id = 4
    /\ util.q[1].page.message_id = 1 /\ util.q[2].page.message_id = 3

\* the positions <<block, page>> of the page entries of the blocks m
Entries(m) == {<<j, k>> \in (1..Len(m)) \X (1..BlockPages) : k <= Len(m[j].pages)}

\* C22: when the worker has finished the sync of a popped entry of page p
\* (the upload, then the update_page loop), exactly one page entry of the
\* blocks has changed, an entry of p: its handle is the non-zero id of the
\* object just uploaded, which holds the entry's buffer, its zero mask is the
\* synced entry's, and the record of its block in the channel is the block's
\* new text. No block or page entry is added or removed by the step.
C22_WorkerSyncStep ==
    [][ wk.pc = "update" /\ wk' # wk =>
          LET e == wk.block[1]
              changed == {x \in Entries(meta) :
                            meta'[x[1]].pages[x[2]] # meta[x[1]].pages[x[2]]}
          IN /\ wk'.pc = "clear"
             /\ Entries(meta') = Entries(meta)
             /\ Cardinality(changed) = 1
             /\ \A x \in changed :
                   LET pg == meta'[x[1]].pages[x[2]] IN
                   /\ pg.offset = e.page.offset
                   /\ pg.message_id = e.page.message_id
                   /\ pg.message_id # 0
                   /\ pg.message_id \in DOMAIN channel'.files
                   /\ channel'.files[pg.message_id] = e.data
                   /\ pg.zero_mask = e.page.zero_mask
                   /\ meta'[x[1]].message_id \in DOMAIN channel'.texts
                   /\ channel'.texts[meta'[x[1]].message_id]
                         = MetadataBlock_as_text(meta'[x[1]]) ]_vars

\* the worker has finished the sync of an entry whose zero mask is not empty:
\* a block has the page under the new handle and with that mask
C22_Witness ==
    /\ wk.pc = "clear"
    /\ wk.block[1].page.zero_mask # BitMask_new
    /\ \E x \in Entries(meta) :
          LET pg == meta[x[1]].pages[x[2]] IN
          /\ pg = wk.block[1].page
          /\ pg.message_id # 0
          /\ pg.message_id \in DOMAIN channel.files
          /\ channel.files[pg.message_id] = wk.block[1].data

\* every block of m but the last holds 5 pages
AllButLastFull(m) == \A j \in 1..(Len(m) - 1) : Len(m[j].pages) = BlockPages

\* C23: a write builds a new block only when its page is in neither the
\* queue nor the cache, no block has the page and every block holds 5 pages;
\* the new block holds that page alone, and the collection grows only by the
\* append of such a block at the end of that write. No step breaks "every
\* block but the last is full", which holds of the empty collection.
C23_BlockCreation ==
    [][ /\ (fg.pc = "write_try" /\ fg'.pc # "crashed") =>
              IF fg'.block # None
              THEN /\ ~PageKnown(fg.offset \div PAGE)
                   /\ \A j \in 1..Len(meta) : Len(meta[j].pages) = BlockPages
                   /\ Len(fg'.block[1].pages) = 1
                   /\ fg'.block[1].pages[1].offset = fg.offset \div PAGE
                   /\ fg'.pc \in {"write_relock", "push"}
                   /\ fg'.ret = "write_relock"
              ELSE fg'.ret = "idle"
        /\ Len(meta') # Len(meta) =>
              /\ fg.pc = "write_relock" /\ fg.op = "write"
              /\ meta' = Append(meta, fg.block[1])
              /\ Len(fg.block[1].pages) = 1
              /\ fg.block[1].pages[1].offset = fg.offset \div PAGE
              /\ \A j \in 1..Len(meta) :
                    /\ Len(meta[j].pages) = BlockPages
                    /\ FindPage(meta[j], fg.offset \div PAGE) = 0
        /\ AllButLastFull(meta) => AllButLastFull(meta') ]_vars

\* a write of page 1 to the device loaded with one full block has returned:
\* the collection has a second block, which holds page 1 alone
C23_Witness ==
    /\ fg.op = "write" /\ fg.pc = "idle" /\ fg.offset \div PAGE = 1
    /\ Len(meta) = 2
    /\ Len(meta[1].pages) = BlockPages
    /\ Len(meta[2].pages) = 1 /\ meta[2].pages[1].offset = 1

\* the entry blk after a write of chunk to sub-block s of its page
Patched(blk, s, chunk) ==
    [blk EXCEPT !.data = Splice(blk.data, s * CHUNK, chunk),
                !.mask = BitMask_set(blk.mask, s, AllZero(chunk))]

\* C24: a write the cache takes (Cache::write returns true) changes one
\* entry, an entry of the page of the offset, and in it only the 4096 bytes
\* of the addressed sub-block, which become the chunk, and the zero-mask bit
\* of that sub-block, which is set exactly if the chunk is all zero; the other
\* entries and the order of the entries are unchanged.
C24_CacheWriteFrame ==
    [][ (fg.pc = "wc_ret" /\ fg'.pc = "idle") =>
          \E i \in 1..Len(cache) :
              /\ cache[i].offset = fg.offset \div PAGE
              /\ cache' = [cache EXCEPT
                             ![i] = Patched(cache[i], (fg.offset % PAGE) \div CHUNK,
                                            fg.data)] ]_vars

\* the worker holds a popped entry whose upload or update_page loop is not done
WkHolding == wk.pc \in {"sync", "lock", "update"}

\* C25: is_syncing is true from the pop of an entry until its upload and the
\* update_page loop are done, and the worker holds no entry while it is idle;
\* so in no state is the queue empty, is_syncing false and a popped entry not
\* yet persisted.
C25_BusyFlag ==
    /\ (WkHolding \/ wk.pc \in {"clear", "dead"}) => is_syncing
    /\ wk.pc = "idle" => wk.block = None
    /\ is_syncing => wk.block # None
    /\ ~(Len(queue) = 0 /\ ~is_syncing /\ WkHolding)

\* Queue::flush has found the queue empty and waits on is_syncing while the
\* worker is in the update_page loop of the last entry
C25_Witness ==
    /\ fg.op = "flush" /\ fg.pc = "qflush_sync"
    /\ Len(queue) = 0 /\ is_syncing
    /\ wk.pc = "update" /\ wk.block # None

\* whether a block of the collection has the page
InBlocks(p) == \E j \in 1..Len(meta) : FindPage(meta[j], p) # 0

\* whether the new block a write is about to append has the page
InNewBlock(p) == fg.block # None /\ FindPage(fg.block[1], p) # 0

\* C26: the page of every entry of the queue, of every entry a request is
\* about to push and of the entry the worker has taken is in a block of the
\* collection, so the worker's update_page loop finds it; a page in the cache
\* is in a block of the collection or in the new block its write appends
\* next, and that page is not queued before the append.
C26_DirtyPagesInBlocks ==
    /\ \A i \in 1..Len(queue) : InBlocks(queue[i].page.offset)
    /\ \A i \in 1..Len(fg.pend) : InBlocks(fg.pend[i].page.offset)
    /\ wk.block # None => InBlocks(wk.block[1].page.offset)
    /\ wk.pc = "update" => ScanUpdate(meta, wk.block[1].page.offset) # 0
    /\ \A i \in 1..Len(cache) : InBlocks(cache[i].offset) \/ InNewBlock(cache[i].offset)

\* the worker has taken the entry of page 1, the one page of the second
\* block, which a write built as a new block and appended
C26_Witness ==
    /\ wk.pc = "sync" /\ wk.block # None /\ wk.block[1].page.offset = 1
    /\ Len(meta) = 2 /\ Len(meta[1].pages) = BlockPages
    /\ Len(meta[2].pages) = 1 /\ meta[2].pages[1].offset = 1
    /\ meta[2].pages[1].message_id = 0

\* page index, remote handle, zero mask and buffer of a cache entry and of a
\* queue entry
CacheCopy(blk) == <<blk.offset, blk.message_id, blk.mask, blk.data>>
QueueCopy(e) == <<e.page.offset, e.page.message_id, e.page.zero_mask, e.data>>

\* the copies of pages held in memory: in the cache, on their way from the
\* cache to the queue, in the queue, and taken by the worker for upload
Held ==
    [i \in 1..Len(cache) |-> CacheCopy(cache[i])]
    \o [i \in 1..Len(fg.pend) |-> QueueCopy(fg.pend[i])]
    \o [i \in 1..Len(queue) |-> QueueCopy(queue[i])]
    \o (IF wk.pc = "sync" THEN <<QueueCopy(wk.block[1])>> ELSE <<>>)

Count(x, q) == Cardinality({i \in 1..Len(q) : q[i] = x})

\* C27: no step discards a copy of a page. A copy held in the cache, pending
\* for the queue, in the queue or taken by the worker is held after the step
\* with the same page index, handle, zero mask and buffer (an evicted or
\* drained cache entry as a pending or queued entry, a reclaimed queue entry
\* as a cache entry, a popped one in the worker's hand), unless the step is
\* the write the cache takes into that entry or the worker's upload of that
\* entry's buffer. An entry leaves the queue only into the cache or into the
\* worker's hand.
C27_Conservation ==
    [][ /\ \A x \in SeqRange(Held) :
              \/ Count(x, Held') >= Count(x, Held)
              \/ /\ fg.pc = "wc_ret" /\ fg'.pc = "idle"
                 /\ Len(cache') = Len(cache)
                 /\ Count(x, Held') = Count(x, Held) - 1
                 /\ \E i \in 1..Len(cache) : x = CacheCopy(cache[i])
              \/ /\ wk.pc = "sync" /\ wk'.pc = "lock"
                 /\ x = QueueCopy(wk.block[1])
                 /\ wk'.block[1].page.message_id \in DOMAIN channel'.files
                 /\ channel'.files[wk'.block[1].page.message_id] = x[4]
        /\ \A i \in 1..Len(queue) :
              Count(queue[i], queue') < Count(queue[i], queue) =>
                 \/ /\ fg.pc = "idle" /\ fg'.reclaimed
                    /\ \E k \in 1..Len(cache') :
                          CacheCopy(cache'[k]) = QueueCopy(queue[i])
                 \/ /\ wk.pc = "idle" /\ wk'.pc = "sync"
                    /\ wk'.block = Some(queue[i]) ]_vars

\* a write has pushed its page into the full cache: the evicted entry waits
\* to be pushed to the queue while the worker uploads an earlier one
C27_Witness ==
    /\ fg.op = "write" /\ fg.pc = "push" /\ Len(fg.pend) = 1
    /\ Len(cache) = CacheS
    /\ wk.pc = "sync"

====
